---------------------------- MODULE Spec2Model ----------------------------
(***************************************************************************)
(* Model of src/execution/ingest_elastic.py: the normalisation of raw JSON *)
(* files into canonical documents, the derivation of index names, the      *)
(* provisioning of indices and the single bulk write of one run.           *)
(*                                                                         *)
(* Strings are sequences of atoms (short TLA+ strings standing for runs of *)
(* characters); the atoms are chosen so that a Python substring test for a *)
(* key is an atom-membership test and a split on "_" is a split at the     *)
(* atom "_".                                                               *)
(***************************************************************************)
EXTENDS Integers, Sequences, FiniteSets, TLC

VARIABLES
    fs,            \* the files under the base directory: set of [dir, name, content]
    pc,            \* position of main()/ingest_directory()
    run,           \* number of the current run of main()
    now,           \* the wall clock read by datetime.now()
    todo,          \* directories os.walk still has to yield (a stack)
    cur,           \* the (root, report_id, report_ts, index_name) of the directory being processed
    files,         \* files of the current directory still to be processed
    docs_to_index, \* the batch accumulated by the walk
    indices_to_create, \* set of index names collected by the walk
    provisioned,   \* index_name -> result of ensure_index_exists in this run
    existing,      \* the indices that exist in the store
    store,         \* the store: set of <<index name, document id>> entries
    bulk,          \* outcome of helpers.bulk in this run
    report,        \* what the run logged about the bulk write
    skipped,       \* files whose processing raised in this run
    named,         \* history: every <<report_id, index_name>> computed so far
    hist,          \* history: per finished run, the batch keys and the store
    rawDoc,        \* input of normalize_document (function-level specification)
    normOut        \* its outcome

vars == <<fs, pc, run, now, todo, cur, files, docs_to_index, indices_to_create,
          provisioned, existing, store, bulk, report, skipped,
          named, hist, rawDoc, normOut>>

---------------------------------------------------------------------------
(* JSON values as json.load returns them: <<tag, payload>>.  An object is  *)
(* the sequence of its <<key, value>> pairs in insertion order.            *)

JNull == <<"null", 0>>
JBool(b) == <<"bool", b>>
JNum(n) == <<"num", n>>
JStr(s) == <<"str", s>>
JArr(a) == <<"arr", a>>
JObj(p) == <<"obj", p>>

Tag(v) == v[1]
Val(v) == v[2]

Range(s) == {s[i] : i \in DOMAIN s}

DictKeys(p) == {p[i][1] : i \in DOMAIN p}

\* dict.get(key, default)
DictGet(p, key, default) ==
    IF key \in DictKeys(p)
    THEN p[CHOOSE i \in DOMAIN p : p[i][1] = key][2]
    ELSE default

\* Python's `key in v`: "T", "F", or "E" when it raises TypeError.
\* dict: key membership; list: an element equal to the string; str: substring.
PyIn(key, v) ==
    CASE Tag(v) = "obj" -> IF key \in DictKeys(Val(v)) THEN "T" ELSE "F"
      [] Tag(v) = "arr" -> IF JStr(<<key>>) \in Range(Val(v)) THEN "T" ELSE "F"
      [] Tag(v) = "str" -> IF key \in Range(Val(v)) THEN "T" ELSE "F"
      [] OTHER -> "E"

\* Python's `v[key]` for a string key: only a dict supports it.
PySubscriptable(v, key) == Tag(v) = "obj" /\ key \in DictKeys(Val(v))
PyGetItem(v, key) == DictGet(Val(v), key, JNull)

\* Python's `for item in v`: the elements of a list, the keys of a dict, the
\* characters of a string; anything else is not iterable.
PyIterable(v) == Tag(v) \in {"arr", "obj", "str"}
PyIter(v) ==
    CASE Tag(v) = "arr" -> Val(v)
      [] Tag(v) = "obj" -> [i \in DOMAIN Val(v) |-> JStr(<<Val(v)[i][1]>>)]
      [] Tag(v) = "str" -> [i \in DOMAIN Val(v) |-> JStr(<<Val(v)[i]>>)]
      [] OTHER -> <<>>

\* The keys the model uses, in the order sort_keys=True puts them.
KeyOrder == <<"articles", "body", "content", "link", "results", "source",
              "title", "uri", "url">>
KeyRank(k) == CHOOSE i \in DOMAIN KeyOrder : KeyOrder[i] = k

RECURSIVE InsertPair(_, _)
InsertPair(pair, sorted) ==
    IF sorted = <<>> THEN <<pair>>
    ELSE IF KeyRank(pair[1]) <= KeyRank(Head(sorted)[1])
         THEN <<pair>> \o sorted
         ELSE <<Head(sorted)>> \o InsertPair(pair, Tail(sorted))

\* json.dumps(item, sort_keys=True): the canonical serialisation, in which
\* the pairs of every object are ordered by key.
RECURSIVE json_dumps(_)
RECURSIVE SortPairs(_)
SortPairs(p) ==
    IF p = <<>> THEN <<>>
    ELSE InsertPair(<<Head(p)[1], json_dumps(Head(p)[2])>>, SortPairs(Tail(p)))
json_dumps(v) ==
    CASE Tag(v) = "obj" -> JObj(SortPairs(Val(v)))
      [] Tag(v) = "arr" -> JArr([i \in DOMAIN Val(v) |-> json_dumps(Val(v)[i])])
      [] OTHER -> v

\* sha256(...).hexdigest(): an injective digest of the serialisation.
generate_doc_id(content_str) == <<"sha256", content_str>>

EmptyStr == JStr(<<>>)

\* Mutant of SourceType: the `url` test comes first.
SourceTypeUrlFirst(item) ==
    IF PyIn("url", item) = "T" THEN "web"
    ELSE IF PyIn("source", item) = "T" /\ PyIn("uri", item) = "T" THEN "news"
    ELSE "unknown"

\* Lines 66-76: provider detection on one item (a dict).
SourceType(item) ==
    IF PyIn("source", item) = "T" /\ PyIn("uri", item) = "T" THEN "news"
    ELSE IF PyIn("url", item) = "T" THEN "web"
    ELSE "unknown"

DataType(item) ==
    IF PyIn("source", item) = "T" /\ PyIn("uri", item) = "T" THEN "article"
    ELSE IF PyIn("url", item) = "T" THEN "page"
    ELSE "unknown"

\* Lines 64-90 for one item: the item raises when `in` raises (numbers,
\* booleans, null) or when it has no .get (strings, lists).
ItemRaises(item) == PyIn("source", item) = "E" \/ Tag(item) # "obj"

\* Mutant of ItemDoc: the id is the digest of the constructed document
\* (its timestamp included), not of the item.
ItemDocIdOfDocument(item, filename, report_id, ts) ==
    [timestamp   |-> ts,
     source_file |-> filename,
     source_type |-> SourceType(item),
     data_type   |-> DataType(item),
     title       |-> DictGet(Val(item), "title", EmptyStr),
     body        |-> DictGet(Val(item), "body", DictGet(Val(item), "content", EmptyStr)),
     url         |-> DictGet(Val(item), "url", DictGet(Val(item), "link", EmptyStr)),
     raw_source  |-> item,
     report_id   |-> report_id,
     id          |-> generate_doc_id(<<ts, filename, json_dumps(item)>>)]

ItemDoc(item, filename, report_id, ts) ==
    [timestamp   |-> ts,
     source_file |-> filename,
     source_type |-> SourceType(item),
     data_type   |-> DataType(item),
     title       |-> DictGet(Val(item), "title", EmptyStr),
     body        |-> DictGet(Val(item), "body", DictGet(Val(item), "content", EmptyStr)),
     url         |-> DictGet(Val(item), "url", DictGet(Val(item), "link", EmptyStr)),
     raw_source  |-> item,
     report_id   |-> report_id,
     id          |-> generate_doc_id(json_dumps(item))]

Raised == [raised |-> TRUE, docs |-> <<>>]
Returned(d) == [raised |-> FALSE, docs |-> d]

\* Lines 64-92: the loop over the items.
NormalizeItems(items, filename, report_id, ts) ==
    IF ~PyIterable(items) THEN Raised
    ELSE LET its == PyIter(items) IN
         IF \E i \in DOMAIN its : ItemRaises(its[i]) THEN Raised
         ELSE Returned([i \in DOMAIN its |-> ItemDoc(its[i], filename, report_id, ts)])

\* normalize_document(raw_doc, filename, valid_timestamp, report_id); ts is
\* the value datetime.now() returns during the call.
normalize_document(raw_doc, filename, report_id, ts) ==
    IF Tag(raw_doc) = "arr"
    THEN NormalizeItems(raw_doc, filename, report_id, ts)
    ELSE IF Tag(raw_doc) = "obj" /\ PyIn("articles", raw_doc) = "T"
    THEN LET articles == PyGetItem(raw_doc, "articles") IN
         CASE PyIn("results", articles) = "E" -> Raised
           [] PyIn("results", articles) = "T" ->
                IF PySubscriptable(articles, "results")
                THEN NormalizeItems(PyGetItem(articles, "results"), filename, report_id, ts)
                ELSE Raised
           [] OTHER -> NormalizeItems(JArr(<<raw_doc>>), filename, report_id, ts)
    ELSE IF Tag(raw_doc) = "obj"
    THEN NormalizeItems(JArr(<<raw_doc>>), filename, report_id, ts)
    ELSE Returned(<<>>)

---------------------------------------------------------------------------
(* Paths, names and the index name.  A name is a sequence of atoms, a path *)
(* the sequence of its names.                                              *)

\* The path as one string: the names joined by the separator.
RECURSIVE JoinPath(_)
JoinPath(path) ==
    IF path = <<>> THEN <<>>
    ELSE IF Len(path) = 1 THEN path[1]
    ELSE path[1] \o <<"/">> \o JoinPath(Tail(path))

\* Python's `sub in s` on strings.
HasSubstring(s, sub) ==
    \E i \in 1..(Len(s) - Len(sub) + 1) : SubSeq(s, i, i + Len(sub) - 1) = sub

RawDataStr == <<"raw", "_", "data">>

\* Line 158: `"raw_data" in root`.
IsRawDataRoot(root) == HasSubstring(JoinPath(root), RawDataStr)

\* Line 160: os.path.basename(os.path.dirname(root)).
ReportIdOf(root) == IF Len(root) >= 2 THEN root[Len(root) - 1] ELSE <<>>

\* str.split("_"): the pieces between the separators (at least one piece).
RECURSIVE SplitFrom(_, _)
SplitFrom(s, acc) ==
    IF s = <<>> THEN <<acc>>
    ELSE IF Head(s) = "_" THEN <<acc>> \o SplitFrom(Tail(s), <<>>)
    ELSE SplitFrom(Tail(s), Append(acc, Head(s)))
Split(s) == SplitFrom(s, <<>>)

\* strftime("%Y%m%d_%H%M%S") of the clock value t.
TimeAtoms == <<"120000", "120001", "120002", "120003", "120004", "120005">>
FormatNow(t) == <<"20261102", "_", TimeAtoms[t + 1]>>

\* Mutant of ReportTs: the current time is used for every identifier.
ReportTsAlwaysNow(report_id, t) == FormatNow(t)

\* Lines 164-167: the report timestamp, or the current time when the
\* identifier has fewer than two segments (IndexError).
ReportTs(report_id, t) ==
    IF Len(Split(report_id)) >= 2
    THEN Split(report_id)[1] \o <<"_">> \o Split(report_id)[2]
    ELSE FormatNow(t)

\* str.lower() on the atoms that contain upper-case letters.
LowerAtom(a) ==
    CASE a = "T110300" -> "t110300"
      [] a = "Berlin" -> "berlin"
      [] a = "noUnderscoreHere" -> "nounderscorehere"
      [] OTHER -> a
Lower(s) == [i \in DOMAIN s |-> LowerAtom(s[i])]

\* Line 169: f"{index_prefix}{report_ts}".lower().
IndexName(index_prefix, report_ts) == Lower(index_prefix \o report_ts)

\* Line 231: env.get("ES_INDEX_PREFIX", "osint_").
IndexPrefix == <<"osint", "_">>

\* Line 173: file.endswith(".json").
EndsWithJson(name) == Len(name) >= 1 /\ name[Len(name)] = ".json"

\* Line 174: os.path.join(root, file).
FilePath(root, name) == Append(root, name)

---------------------------------------------------------------------------
(* The directory tree under the base directory and the files in it.        *)

MaxClock == 1      \* the clock values are 0..MaxClock
MaxRuns == 2       \* runs of main() in the re-ingestion specification
BigBatch == 6      \* number of items of the largest file

BaseDir == <<"reports">>
R1 == <<"20260204", "_", "T110300", "_", "Berlin">>
R2 == <<"noUnderscoreHere">>
SubDir == <<"sub">>

Dirs ==
    { <<BaseDir>>,
      <<BaseDir, R1>>, <<BaseDir, R1, RawDataStr>>, <<BaseDir, R1, RawDataStr, SubDir>>,
      <<BaseDir, R2>>, <<BaseDir, R2, RawDataStr>> }

Children(d) == {e \in Dirs : Len(e) = Len(d) + 1 /\ SubSeq(e, 1, Len(d)) = d}

NewsItem == JObj(<< <<"uri", JStr(<<"u1">>)>>, <<"source", JStr(<<"bbc">>)>>,
                   <<"url", JStr(<<"http">>)>>, <<"title", JStr(<<"Head">>)>> >>)
WebItem == JObj(<< <<"url", JStr(<<"http">>)>>, <<"content", JStr(<<"text">>)>> >>)
TitleItem(n) == JObj(<< <<"title", JNum(n)>> >>)

Good(v) == <<"json", v>>
Bad == <<"bad", 0>>      \* not valid JSON, or unreadable: json.load/open raise

ListFile == Good(JArr([n \in 1..BigBatch |-> TitleItem(n)]))
BadListFile == Good(JArr(<<WebItem, JNum(5)>>))
ScalarFile == Good(JStr(<<"hello">>))
WrappedFile == Good(JObj(<< <<"articles", JObj(<< <<"results", JArr(<<WebItem>>)>> >>)>> >>))

File(d, n, c) == [dir |-> d, name |-> n, content |-> c]

\* Files every tree has: a non-.json file in a raw_data directory and a
\* .json file outside any raw_data directory.
FixedFiles ==
    { File(<<BaseDir, R1, RawDataStr>>, <<"notes", ".txt">>, Good(NewsItem)),
      File(<<BaseDir, R1>>, <<"meta", ".json">>, Good(NewsItem)) }

FileA(c) == File(<<BaseDir, R1, RawDataStr>>, <<"a", ".json">>, c)
FileB(c) == File(<<BaseDir, R1, RawDataStr>>, <<"b", ".json">>, c)
FileC(c) == File(<<BaseDir, R1, RawDataStr, SubDir>>, <<"c", ".json">>, c)
FileD(c) == File(<<BaseDir, R2, RawDataStr>>, <<"d", ".json">>, c)

\* Trees whose files hold one document each.
SmallTrees ==
    {FixedFiles \cup a \cup c \cup d :
        a \in {{}, {FileA(Good(NewsItem))}},
        c \in {{}, {FileC(Good(NewsItem))}},
        d \in {{}, {FileD(WrappedFile)}}}

\* The trees of the single-run specification: the small trees, with or
\* without a file that fails or yields nothing, and the trees of one large
\* file.
Trees ==
    {t \cup b : t \in SmallTrees,
                b \in {{}, {FileB(Bad)}, {FileB(BadListFile)}, {FileB(ScalarFile)}}}
    \cup {FixedFiles \cup {FileA(ListFile)} \cup b : b \in {{}, {FileB(BadListFile)}}}

\* The trees of the re-ingestion specification: a report with a well-formed
\* identifier, and a file in a subdirectory or a report without one.
RerunTrees ==
    {t \in SmallTrees : /\ FileA(Good(NewsItem)) \in t
                        /\ (FileC(Good(NewsItem)) \in t) # (FileD(WrappedFile) \in t)}

FilesIn(d) == {f \in fs : f.dir = d}

\* The orders in which os.listdir may return the members of a set.
Orders(S) == {o \in [1..Cardinality(S) -> S] : Range(o) = S}

---------------------------------------------------------------------------
(* The run.                                                                *)

NoCur == [root |-> <<>>, report_id |-> <<>>, report_ts |-> <<>>, index_name |-> <<>>]
NoBulk == [calls |-> 0, outcome |-> "none", rejected |-> {}]
NoReport == [kind |-> "none", success |-> 0, failed |-> 0, failedIds |-> <<>>, more |-> 0]

Key(a) == <<a.index, a.id>>
Keys(batch) == {Key(batch[i]) : i \in DOMAIN batch}

InitRun(trees) ==
    /\ fs \in trees
    /\ pc = "start"
    /\ run = 1
    /\ now = 0
    /\ todo = <<>>
    /\ cur = NoCur
    /\ files = <<>>
    /\ docs_to_index = <<>>
    /\ indices_to_create = {}
    /\ provisioned = <<>>
    /\ existing = {}
    /\ store = {}
    /\ bulk = NoBulk
    /\ report = NoReport
    /\ skipped = {}
    /\ named = {}
    /\ hist = <<>>
    /\ rawDoc = JNull
    /\ normOut = Returned(<<>>)

Init == InitRun(Trees)

\* The record of a finished run.
RunRecord(batch, st, rep) ==
    [entries |-> {<<batch[i].index, batch[i].id, batch[i].source.report_id>> :
                     i \in DOMAIN batch},
     store |-> st,
     wroteAll |-> rep.kind \in {"ok", "empty"}]

\* datetime.now() advances.
Tick ==
    /\ now < MaxClock
    /\ now' = now + 1
    /\ UNCHANGED <<fs, pc, run, todo, cur, files, docs_to_index, indices_to_create,
                   provisioned, existing, store, bulk, report, skipped, named, hist,
                   rawDoc, normOut>>

\* Lines 227-229: `if not es.ping(): ... return`.
PingGate(ping) == ping = "true"

\* main(), lines 223-232, up to the first os.walk step.  ping is the answer
\* of es.ping(): "true", "false", or "raise".
Main ==
    /\ pc = "start"
    /\ \E ping \in {"true", "false", "raise"} :
        IF PingGate(ping)
        THEN /\ pc' = "walk"
             /\ todo' = <<<<BaseDir>>>>
             /\ report' = NoReport
             /\ UNCHANGED hist
        ELSE /\ pc' = "done"
             /\ todo' = <<>>
             /\ report' = [NoReport EXCEPT !.kind =
                              IF ping = "raise" THEN "fatal" ELSE "no_ping"]
             /\ hist' = Append(hist, RunRecord(<<>>, store, report'))
    /\ cur' = NoCur
    /\ files' = <<>>
    /\ docs_to_index' = <<>>
    /\ indices_to_create' = {}
    /\ provisioned' = <<>>
    /\ bulk' = NoBulk
    /\ skipped' = {}
    /\ UNCHANGED <<fs, run, now, existing, store, named, rawDoc, normOut>>

\* The phase after a walk step: the walk ends when os.walk has nothing left.
AfterWalk(td, fl) == IF td = <<>> /\ fl = <<>> THEN "provision" ELSE "walk"

\* Lines 157-170: os.walk yields the next directory, top-down; the
\* subdirectories are visited in listing order.
WalkDir ==
    /\ pc = "walk"
    /\ files = <<>>
    /\ todo # <<>>
    /\ LET root == Head(todo) IN
       \E sub \in Orders(Children(root)) :
          /\ todo' = sub \o Tail(todo)
          /\ IF IsRawDataRoot(root)
             THEN LET report_id == ReportIdOf(root)
                      report_ts == ReportTs(report_id, now)
                      index_name == IndexName(IndexPrefix, report_ts)
                  IN /\ cur' = [root |-> root, report_id |-> report_id,
                                report_ts |-> report_ts, index_name |-> index_name]
                     /\ indices_to_create' = indices_to_create \cup {index_name}
                     /\ named' = named \cup {<<report_id, index_name>>}
                     /\ files' \in Orders(FilesIn(root))
             ELSE /\ UNCHANGED <<cur, indices_to_create, named, files>>
          /\ pc' = AfterWalk(todo', files')
    /\ UNCHANGED <<fs, run, now, docs_to_index, provisioned, existing, store, bulk,
                   report, skipped, hist, rawDoc, normOut>>

\* Lines 183-189: the bulk action of one normalised document.
ActionOf(doc, index_name) ==
    [index |-> index_name,
     id |-> doc.id,
     source |-> [k \in DOMAIN doc \ {"id"} |-> doc[k]]]

\* Mutant of FileOutcome: the documents of the items before the failing one
\* are appended before the exception is caught.
FileOutcomePartial(file, c, t) ==
    IF file.content = Bad THEN [failed |-> TRUE, actions |-> <<>>]
    ELSE LET raw == file.content[2]
             path == FilePath(c.root, file.name)
             r == normalize_document(raw, path, c.report_id, t)
             good == IF Tag(raw) = "arr"
                     THEN {k \in 0..Len(Val(raw)) :
                              \A i \in 1..k : ~ItemRaises(Val(raw)[i])}
                     ELSE {0}
             n == CHOOSE k \in good : \A j \in good : j <= k
             part == [i \in 1..n |-> ItemDoc(Val(raw)[i], path, c.report_id, t)]
         IN IF r.raised
            THEN [failed |-> TRUE,
                  actions |-> [i \in 1..n |-> ActionOf(part[i], c.index_name)]]
            ELSE [failed |-> FALSE,
                  actions |-> [i \in DOMAIN r.docs |-> ActionOf(r.docs[i], c.index_name)]]

\* Lines 177-192 for one file: what the file appends to the batch, and
\* whether the except branch was taken.
FileOutcome(file, c, t) ==
    IF file.content = Bad THEN [failed |-> TRUE, actions |-> <<>>]
    ELSE LET r == normalize_document(file.content[2], FilePath(c.root, file.name),
                                     c.report_id, t)
         IN IF r.raised THEN [failed |-> TRUE, actions |-> <<>>]
            ELSE [failed |-> FALSE,
                  actions |-> [i \in DOMAIN r.docs |-> ActionOf(r.docs[i], c.index_name)]]

\* Lines 172-192: one iteration of `for file in files`.
ProcessFile ==
    /\ pc = "walk"
    /\ files # <<>>
    /\ LET file == Head(files) IN
       IF EndsWithJson(file.name)
       THEN LET out == FileOutcome(file, cur, now) IN
            /\ docs_to_index' = docs_to_index \o out.actions
            /\ skipped' = IF out.failed THEN skipped \cup {file} ELSE skipped
       ELSE UNCHANGED <<docs_to_index, skipped>>
    /\ files' = Tail(files)
    /\ pc' = AfterWalk(todo, files')
    /\ UNCHANGED <<fs, run, now, todo, cur, indices_to_create, provisioned, existing,
                   store, bulk, report, named, hist, rawDoc, normOut>>

\* ensure_index_exists(es, index_name), lines 94-149.  fault is what the
\* store does to this call: "none", "exists_raises" (es.indices.exists
\* raises, outside the try), "create_raises" (es.indices.create raises).
ensure_index_exists(ex, index_name, fault) ==
    IF fault = "exists_raises" THEN [result |-> "raised", existing |-> ex]
    ELSE IF index_name \in ex THEN [result |-> "true", existing |-> ex]
    ELSE IF fault = "create_raises" THEN [result |-> "false", existing |-> ex]
    ELSE [result |-> "true", existing |-> ex \cup {index_name}]

\* Lines 195-196: one iteration of `for index_name in indices_to_create`.
\* An exception leaves ingest_directory and is logged by main (line 235).
EnsureIndex ==
    /\ pc = "provision"
    /\ \E index_name \in indices_to_create \ DOMAIN provisioned,
          fault \in {"none", "exists_raises", "create_raises"} :
         LET r == ensure_index_exists(existing, index_name, fault) IN
         /\ provisioned' = (index_name :> r.result) @@ provisioned
         /\ existing' = r.existing
         /\ IF r.result = "raised"
            THEN /\ pc' = "done"
                 /\ report' = [NoReport EXCEPT !.kind = "fatal"]
                 /\ hist' = Append(hist, RunRecord(docs_to_index, store, report'))
            ELSE UNCHANGED <<pc, report, hist>>
    /\ UNCHANGED <<fs, run, now, todo, cur, files, docs_to_index, indices_to_create,
                   store, bulk, skipped, named, rawDoc, normOut>>

\* Mutant of ReadyToWrite: the write does not wait for the provisioning loop.
ReadyToWriteEarly == pc = "provision"

\* Line 198 is reached when the provisioning loop has visited every index.
ReadyToWrite == pc = "provision" /\ DOMAIN provisioned = indices_to_create

\* Mutant of BulkWritten: the write stops at the first rejected document
\* (raise_on_error=True).
BulkWrittenUntilError(batch, rejected) ==
    {Key(batch[i]) : i \in {j \in DOMAIN batch : \A k \in 1..j : k \notin rejected}}

\* helpers.bulk(..., raise_on_error=False): the entries the store holds
\* after the call, when it rejects the documents at the positions rejected.
BulkWritten(batch, rejected) ==
    {Key(batch[i]) : i \in DOMAIN batch \ rejected}

\* The ids of the rejected documents, in batch order (the `errors` list).
RECURSIVE RejectedFrom(_, _, _)
RejectedFrom(batch, rejected, i) ==
    IF i > Len(batch) THEN <<>>
    ELSE (IF i \in rejected THEN <<batch[i].id>> ELSE <<>>)
         \o RejectedFrom(batch, rejected, i + 1)
BulkErrors(batch, rejected) == RejectedFrom(batch, rejected, 1)

\* Line 206: `errors[:5]`.
LogLimit == 5
LoggedErrors(errors) ==
    SubSeq(errors, 1, IF Len(errors) < LogLimit THEN Len(errors) ELSE LogLimit)

\* Lines 203-216: what the run logs about the outcome of the bulk call.
BulkReport(success, errors) ==
    IF errors # <<>>
    THEN [kind |-> "errors", success |-> success, failed |-> Len(errors),
          failedIds |-> LoggedErrors(errors),
          more |-> IF Len(errors) > LogLimit THEN Len(errors) - LogLimit ELSE 0]
    ELSE [kind |-> "ok", success |-> success, failed |-> 0,
          failedIds |-> <<>>, more |-> 0]

\* Lines 198-220: the bulk write and its report.
Bulk ==
    /\ ReadyToWrite
    /\ IF docs_to_index = <<>>
       THEN /\ report' = [NoReport EXCEPT !.kind = "empty"]
            /\ UNCHANGED <<bulk, store, existing>>
       ELSE \/ \* the write could not be submitted: helpers.bulk raises
               /\ bulk' = [calls |-> bulk.calls + 1, outcome |-> "raised", rejected |-> {}]
               /\ report' = [NoReport EXCEPT !.kind = "bulk_failed"]
               /\ UNCHANGED <<store, existing>>
            \/ \E rejected \in SUBSET DOMAIN docs_to_index :
               LET written == BulkWritten(docs_to_index, rejected)
                   errors == BulkErrors(docs_to_index, rejected)
                   success == Len(docs_to_index) - Len(errors)
               IN /\ bulk' = [calls |-> bulk.calls + 1, outcome |-> "returned",
                              rejected |-> rejected]
                  /\ store' = store \cup written
                  /\ existing' = existing \cup {k[1] : k \in written}
                  /\ report' = BulkReport(success, errors)
    /\ pc' = "done"
    /\ hist' = Append(hist, RunRecord(docs_to_index, store', report'))
    /\ UNCHANGED <<fs, run, now, todo, cur, files, docs_to_index, indices_to_create,
                   provisioned, skipped, named, rawDoc, normOut>>

\* main() is run again over the same files: a new process, whose locals
\* are those of a fresh start.
Rerun ==
    /\ pc = "done"
    /\ run < MaxRuns
    /\ pc' = "start"
    /\ run' = run + 1
    /\ todo' = <<>>
    /\ cur' = NoCur
    /\ files' = <<>>
    /\ docs_to_index' = <<>>
    /\ indices_to_create' = {}
    /\ provisioned' = <<>>
    /\ bulk' = NoBulk
    /\ report' = NoReport
    /\ skipped' = {}
    /\ UNCHANGED <<fs, now, existing, store, named, hist, rawDoc, normOut>>

Next == Tick \/ Main \/ WalkDir \/ ProcessFile \/ EnsureIndex \/ Bulk

Spec == Init /\ [][Next]_vars

InitRerun == InitRun(RerunTrees)

NextRerun == Next \/ Rerun

SpecRerun == InitRerun /\ [][NextRerun]_vars

---------------------------------------------------------------------------
(* normalize_document on its own: the inputs are JSON values of bounded    *)
(* size, the one action applies the function.                              *)

MaxArrLen == 2     \* longest array among the inputs

SeqsUpTo(S, n) == UNION {[1..k -> S] : k \in 0..n}

Scalars ==
    {JNull, JBool(TRUE), JNum(1), JStr(<<>>), JStr(<<"results">>),
     JStr(<<"source", "uri">>)}

Items ==
    {NewsItem, WebItem, TitleItem(1), JObj(<<>>),
     JObj(<< <<"source", JStr(<<"bbc">>)>> >>),
     JObj(<< <<"source", JStr(<<"bbc">>)>>, <<"uri", JNum(1)>> >>),
     JObj(<< <<"uri", JNum(1)>>, <<"url", JNull>> >>),
     JObj(<< <<"link", JStr(<<"http">>)>>, <<"body", JStr(<<"text">>)>> >>)}

Elems == Scalars \cup Items \cup {JArr(<<JStr(<<"source">>)>>)}

Arrays == {JArr(a) : a \in SeqsUpTo(Elems, MaxArrLen)}

ResultsValues ==
    Scalars \cup Items \cup {JArr(a) : a \in SeqsUpTo(Elems, 1)}
            \cup {JArr(<<WebItem, NewsItem>>), JArr(<<WebItem, JNum(1)>>)}

ArticlesValues ==
    Scalars \cup {JArr(<<>>), JArr(<<JStr(<<"results">>)>>), JObj(<<>>),
                  JObj(<< <<"title", JNum(1)>> >>)}
            \cup {JObj(<< <<"results", r>> >>) : r \in ResultsValues}

Wrapped ==
    {JObj(<< <<"articles", a>> >>) : a \in ArticlesValues}
    \cup {JObj(<< <<"url", JStr(<<"http">>)>>, <<"articles", a>> >>) : a \in ArticlesValues}

NormInputs == Scalars \cup Items \cup Arrays \cup Wrapped

NormFile == <<BaseDir, R1, RawDataStr, <<"a", ".json">>>>

InitNorm ==
    /\ rawDoc \in NormInputs
    /\ normOut = Returned(<<>>)
    /\ pc = "norm"
    /\ fs = {}
    /\ run = 1
    /\ now = 0
    /\ todo = <<>>
    /\ cur = NoCur
    /\ files = <<>>
    /\ docs_to_index = <<>>
    /\ indices_to_create = {}
    /\ provisioned = <<>>
    /\ existing = {}
    /\ store = {}
    /\ bulk = NoBulk
    /\ report = NoReport
    /\ skipped = {}
    /\ named = {}
    /\ hist = <<>>

\* One call normalize_document(raw_doc, filename, valid_timestamp, report_id).
Normalize ==
    /\ pc = "norm"
    /\ normOut' = normalize_document(rawDoc, NormFile, R1, now)
    /\ pc' = "normed"
    /\ UNCHANGED <<fs, run, now, todo, cur, files, docs_to_index, indices_to_create,
                   provisioned, existing, store, bulk, report, skipped, named, hist,
                   rawDoc>>

NextNorm == Normalize \/ (Tick /\ pc = "norm")

SpecNorm == InitNorm /\ [][NextNorm]_vars

---------------------------------------------------------------------------
(* Properties of normalize_document.                                       *)

\* C5: normalize_document is total: for every JSON value it returns a
\* sequence of documents and never raises.
C5_Total == pc = "normed" => ~normOut.raised

HasField(item, k) == Tag(item) = "obj" /\ k \in DictKeys(Val(item))

\* The elements of a JSON array (none for any other value).
ElementsOf(v) == IF Tag(v) = "arr" THEN Val(v) ELSE <<>>

OneDocPer(elements) ==
    /\ ~normOut.raised
    /\ Len(normOut.docs) = Len(elements)
    /\ \A i \in DOMAIN elements : normOut.docs[i].raw_source = elements[i]

\* C6: shape detection, in order: a sequence yields one document per
\* element with raw_source that element; else a mapping whose `articles`
\* value has a `results` key yields one document per element of
\* articles.results; else a mapping yields one document whose raw_source is
\* the mapping; anything else yields no document.
C6_Shapes ==
    pc = "normed" =>
        IF Tag(rawDoc) = "arr" THEN OneDocPer(Val(rawDoc))
        ELSE IF HasField(rawDoc, "articles")
                /\ HasField(DictGet(Val(rawDoc), "articles", JNull), "results")
        THEN OneDocPer(ElementsOf(
                 DictGet(Val(DictGet(Val(rawDoc), "articles", JNull)), "results", JNull)))
        ELSE IF Tag(rawDoc) = "obj" THEN OneDocPer(<<rawDoc>>)
        ELSE ~normOut.raised /\ normOut.docs = <<>>

\* C7: provider detection is first-match-wins over field presence: every
\* document is (news, article) when its item has `source` and `uri`, else
\* (web, page) when it has `url`, else (unknown, unknown).
C7_ProviderDetection ==
    pc = "normed" =>
        \A i \in DOMAIN normOut.docs :
            LET d == normOut.docs[i]
                item == d.raw_source
            IN <<d.source_type, d.data_type>> =
                   IF HasField(item, "source") /\ HasField(item, "uri")
                   THEN <<"news", "article">>
                   ELSE IF HasField(item, "url") THEN <<"web", "page">>
                   ELSE <<"unknown", "unknown">>

\* C7 witness: a document was produced from an item that has `source`,
\* `uri` and `url`, and it is (news, article).
C7_Witness ==
    /\ pc = "normed"
    /\ \E i \in DOMAIN normOut.docs :
          /\ HasField(normOut.docs[i].raw_source, "source")
          /\ HasField(normOut.docs[i].raw_source, "uri")
          /\ HasField(normOut.docs[i].raw_source, "url")
          /\ normOut.docs[i].source_type = "news"
          /\ normOut.docs[i].data_type = "article"

---------------------------------------------------------------------------
(* Properties of a run.                                                    *)

\* The walk of the current run is over.
WalkFinished == pc = "provision" \/ provisioned # <<>> \/ bulk.calls > 0

\* The .json files of the directories the walk treats as raw-data roots.
CandidateFiles == {f \in fs : EndsWithJson(f.name) /\ IsRawDataRoot(f.dir)}

\* The items a file holds, or <<"fails">> when reading, parsing or
\* normalising it fails.
RawSourcesOf(f) ==
    IF f.content = Bad THEN <<"fails">>
    ELSE LET r == normalize_document(f.content[2], <<>>, <<>>, 0) IN
         IF r.raised THEN <<"fails">>
         ELSE <<"ok", [i \in DOMAIN r.docs |-> r.docs[i].raw_source]>>

\* The batch restricted to the documents of one file, as raw sources.
RECURSIVE BatchOfFile(_, _)
BatchOfFile(batch, path) ==
    IF batch = <<>> THEN <<>>
    ELSE (IF Head(batch).source.source_file = path
          THEN <<Head(batch).source.raw_source>> ELSE <<>>)
         \o BatchOfFile(Tail(batch), path)

\* C9: a file whose reading, parsing or normalising fails contributes no
\* document, and the batch holds exactly the documents of all other files.
C9_MalformedFileIsolation ==
    WalkFinished =>
        /\ \A f \in CandidateFiles :
              BatchOfFile(docs_to_index, FilePath(f.dir, f.name)) =
                  IF RawSourcesOf(f)[1] = "fails" THEN <<>> ELSE RawSourcesOf(f)[2]
        /\ \A i \in DOMAIN docs_to_index :
              \E f \in CandidateFiles :
                  docs_to_index[i].source.source_file = FilePath(f.dir, f.name)
        /\ skipped = {f \in CandidateFiles : RawSourcesOf(f)[1] = "fails"}

\* C9 witness: the walk is over, a file failed half-way through its items,
\* and the batch holds the documents of other files.
C9_Witness ==
    /\ pc = "provision"
    /\ FileB(BadListFile) \in skipped
    /\ Len(docs_to_index) >= 2

\* The position of the raw_data segment in a path (0 when it has none).
RawDataPos(path) ==
    IF \E k \in DOMAIN path : path[k] = RawDataStr
    THEN CHOOSE k \in DOMAIN path : path[k] = RawDataStr /\ \A j \in 1..(k - 1) : path[j] # RawDataStr
    ELSE 0

\* The Report a file belongs to: the parent of the raw_data segment.
OwningReport(path) == path[RawDataPos(path) - 1]

\* C4: every document of a .json file in a raw_data directory or below it
\* carries the name of the raw_data segment's parent as report identifier,
\* and all documents of one Report go to one index.
C4_ReportOwnership ==
    /\ \A i \in DOMAIN docs_to_index :
          LET path == docs_to_index[i].source.source_file IN
          RawDataPos(path) > 1 => docs_to_index[i].source.report_id = OwningReport(path)
    /\ \A i, j \in DOMAIN docs_to_index :
          LET pi == docs_to_index[i].source.source_file
              pj == docs_to_index[j].source.source_file
          IN (RawDataPos(pi) > 1 /\ RawDataPos(pj) > 1 /\ OwningReport(pi) = OwningReport(pj))
                 => docs_to_index[i].index = docs_to_index[j].index

\* C8: a store error while provisioning an index gives a false result and
\* never raises; every index of the run is provisioned and a non-empty
\* batch is submitted whole.
C8_ProvisioningNotFatal ==
    /\ \A ix \in DOMAIN provisioned : provisioned[ix] \in {"true", "false"}
    /\ (pc = "done" /\ WalkFinished) =>
          /\ DOMAIN provisioned = indices_to_create
          /\ docs_to_index # <<>> => bulk.calls = 1

\* C10: the bulk write is submitted at most once per run, only after the
\* walk has finished and ensure_index_exists has been invoked for the index
\* of every document; the batch does not change once provisioning has
\* started; a failed ping ends the run without a write.
C10_PhaseOrder ==
    [][ /\ bulk'.calls <= 1
        /\ bulk'.calls > bulk.calls =>
              /\ pc = "provision"
              /\ todo = <<>> /\ files = <<>>
              /\ \A i \in DOMAIN docs_to_index :
                    docs_to_index[i].index \in DOMAIN provisioned
        /\ pc \in {"provision", "done"} => docs_to_index' = docs_to_index
        /\ (pc = "start" /\ pc' = "done") => (bulk'.calls = 0 /\ store' = store)
        /\ (pc = "done" /\ pc' = "done") => (bulk' = bulk /\ store' = store)
      ]_vars

\* C10 witness: a batch for two indices has been written.
C10_Witness ==
    /\ pc = "done"
    /\ bulk.calls = 1
    /\ bulk.outcome = "returned"
    /\ \E i, j \in DOMAIN docs_to_index : docs_to_index[i].index # docs_to_index[j].index

\* The k-th rejected position of the bulk call, in batch order.
RejectedPos(k) ==
    CHOOSE p \in bulk.rejected : Cardinality({q \in bulk.rejected : q < p}) = k - 1

Accepted == DOMAIN docs_to_index \ bulk.rejected

\* C2 as stated: when the store rejects a subset of the batch the run ends
\* normally, every other document is in the store, the reported success
\* count is the number of non-rejected documents and the reported failures
\* are exactly the rejected documents, one per rejected id.
C2_AllFailuresReported ==
    bulk.outcome = "returned" =>
        /\ pc = "done"
        /\ report.kind \in {"ok", "errors"}
        /\ \A i \in Accepted : Key(docs_to_index[i]) \in store
        /\ report.success = Cardinality(Accepted)
        /\ report.failedIds =
              [k \in 1..Cardinality(bulk.rejected) |-> docs_to_index[RejectedPos(k)].id]

\* C2 amended: as above, but the run reports the number of rejected
\* documents and names only the first five of them, in batch order; the
\* rest are reported as a count.
C2_PartialFailureIsolation ==
    bulk.outcome = "returned" =>
        LET n == Cardinality(bulk.rejected)
            shown == IF n < 5 THEN n ELSE 5
        IN /\ pc = "done"
           /\ report.kind \in {"ok", "errors"}
           /\ \A i \in Accepted : Key(docs_to_index[i]) \in store
           /\ report.success = Cardinality(Accepted)
           /\ report.failed = n
           /\ report.failedIds = [k \in 1..shown |-> docs_to_index[RejectedPos(k)].id]
           /\ report.more = n - shown

\* C2 witness: the store rejected some documents of the batch and accepted
\* others.
C2_Witness ==
    /\ bulk.outcome = "returned"
    /\ bulk.rejected # {}
    /\ Cardinality(Accepted) >= 2
    /\ report.kind = "errors"

\* A report identifier with at least two "_"-separated segments.
WellFormed(report_id) == "_" \in Range(report_id)

\* C3 as stated: the same report identifier always yields the same index
\* name, whenever it is computed.
C3_IndexNameStable ==
    \A p, q \in named : p[1] = q[1] => p[2] = q[2]

\* C3 amended: the same report identifier yields the same index name
\* whenever it has at least two "_"-separated segments.
C3_StableWhenWellFormed ==
    \A p, q \in named : (WellFormed(p[1]) /\ p[1] = q[1]) => p[2] = q[2]

\* C3 witness: the walk of a later run, at a later time, has computed the
\* index name of a well-formed identifier again.
C3_Witness ==
    /\ run >= 2
    /\ pc = "provision"
    /\ now > 0
    /\ \E p \in named : WellFormed(p[1]) /\ p[1] = R1

RunWroteAll(r) == hist[r].wroteAll

KeysOf(entries) == {<<e[1], e[2]>> : e \in entries}

\* C1 as stated: after a run that wrote its whole batch, a second run over
\* the same files leaves the store with exactly the same entries.
C1_Idempotent ==
    \A r \in 2..Len(hist) :
        RunWroteAll(r - 1) => hist[r].store = hist[r - 1].store

\* C1 amended: after a run that wrote its whole batch, a second run over
\* the same files adds no entry for a document whose report identifier has
\* at least two "_"-separated segments; what it adds are entries of its own
\* batch for documents whose identifier has fewer.
C1_IdempotentWhenWellFormed ==
    \A r \in 2..Len(hist) :
        RunWroteAll(r - 1) =>
            /\ \A e \in hist[r].entries :
                  WellFormed(e[3]) => <<e[1], e[2]>> \in hist[r - 1].store
            /\ hist[r].store \ hist[r - 1].store \subseteq
                  KeysOf({e \in hist[r].entries : ~WellFormed(e[3])})

\* C1 witness: two runs at different times both wrote a batch that holds a
\* document of a well-formed report.
C1_Witness ==
    /\ Len(hist) >= 2
    /\ hist[1].wroteAll /\ hist[1].entries # {}
    /\ hist[2].wroteAll
    /\ now > 0
    /\ \E e \in hist[2].entries : WellFormed(e[3])

============================================================================
